---------------------------- MODULE Spec2Model ----------------------------
(***************************************************************************)
(* Feature store and claim protocol of the feature MCP server              *)
(* (src/mcp_server/feature_mcp.py).                                        *)
(*                                                                         *)
(* Several server processes share one SQLite feature table.  Every tool    *)
(* handler is cut at its database statements: a guarded UPDATE followed by *)
(* commit is one step, the re-read that diagnoses a zero-row update is the *)
(* next.  Handlers wrapped in atomic_transaction take the store's write    *)
(* lock when they begin, read their snapshot, and write and release when   *)
(* they commit.                                                            *)
(***************************************************************************)
EXTENDS Integers, Sequences, FiniteSets, TLC

\* ------------------------------------------------------------------ bounds

NumProcs == 2
MaxFeatures == 3
MaxRows == 2
MaxPriority == 4
MaxBatch == 2
MAX_DEPENDENCIES_PER_FEATURE == 2

Procs == 1..NumProcs

VARIABLES
    features,   \* the features table: features[id] is the row with that id
    lock,       \* holder of the store's write lock (BEGIN IMMEDIATE), 0 if free
    pc,         \* pc[p]: the statement process p is about to run
    arg,        \* arg[p]: the arguments of p's current call
    loc,        \* loc[p]: p's locals (rowcount, rows read inside its transaction)
    result,     \* result[p]: the kind of result p's last finished call returned
    quota,      \* quota[p]: calls p may still start (-1: any number)
    start       \* the table as it was when the servers started

vars == <<features, lock, pc, arg, loc, result, quota, start>>

\* ----------------------------------------------------------------- helpers

Range(s) == {s[i] : i \in 1..Len(s)}

RECURSIVE Insert(_, _)
Insert(x, s) ==
    IF s = <<>> THEN <<x>>
    ELSE IF x <= Head(s) THEN <<x>> \o s
    ELSE <<Head(s)>> \o Insert(x, Tail(s))

\* mutant: the list stored as it was built, not sorted
sorted_AsGiven(s) == s

\* Python's sorted() on a list of ints
RECURSIVE sorted(_)
sorted(s) == IF s = <<>> THEN <<>> ELSE Insert(Head(s), sorted(Tail(s)))

\* [d for d in s if d != x]
RECURSIVE Without(_, _)
Without(s, x) ==
    IF s = <<>> THEN <<>>
    ELSE IF Head(s) = x THEN Without(Tail(s), x)
    ELSE <<Head(s)>> \o Without(Tail(s), x)

\* [d for d in s if d not in S]
RECURSIVE NotIn(_, _)
NotIn(s, S) ==
    IF s = <<>> THEN <<>>
    ELSE IF Head(s) \in S THEN NotIn(Tail(s), S)
    ELSE <<Head(s)>> \o NotIn(Tail(s), S)

SetMax(S) == CHOOSE x \in S : \A y \in S : y <= x

\* session.query(Feature).filter(Feature.id == id).first() is not None
Exists(fs, id) == id \in 1..Len(fs)

\* SELECT COALESCE(MAX(priority), 0) FROM features
MaxPriorityOf(fs) ==
    IF fs = <<>> THEN 0 ELSE SetMax({fs[i].priority : i \in 1..Len(fs)})

\* Feature(priority=..., passes=False, in_progress=False), dependencies NULL
NewFeature(prio) ==
    [priority |-> prio, passes |-> FALSE, in_progress |-> FALSE,
     dependencies |-> <<>>]

NoArg == [op |-> "none", fid |-> 0, dep |-> 0, deps |-> <<>>, specs |-> <<>>]
NoLoc == [rc |-> 0, snap |-> <<>>]
NoResult == "none"

Errors == {"not_found", "already_passing", "already_in_progress", "unknown",
           "self_reference", "dependency_not_found", "limit", "exists",
           "circular", "not_exists", "duplicate", "missing",
           "missing_fields", "too_many", "invalid_index", "forward_reference"}

\* ------------------------------------------------------- call and return

\* p is idle and may start another call
Start(p) ==
    /\ pc[p] = "idle"
    /\ quota[p] # 0
    /\ quota' = [quota EXCEPT ![p] = IF quota[p] > 0 THEN quota[p] - 1 ELSE quota[p]]
    /\ UNCHANGED start

\* p is at the statement with this label
At(p, label) ==
    /\ pc[p] = label
    /\ UNCHANGED <<quota, start>>

\* p's handler returns json.dumps(...) of the given kind; a process that
\* starts no further call stays with the arguments of its last one
Return(p, a, kind) ==
    /\ pc' = [pc EXCEPT ![p] = IF quota'[p] = 0 THEN "done" ELSE "idle"]
    /\ result' = [result EXCEPT ![p] = kind]
    /\ arg' = [arg EXCEPT ![p] = IF quota'[p] = 0 THEN a ELSE NoArg]
    /\ loc' = [loc EXCEPT ![p] = NoLoc]

\* p moves on to its next statement
Goto(p, label, a, l) ==
    /\ pc' = [pc EXCEPT ![p] = label]
    /\ result' = [result EXCEPT ![p] = NoResult]
    /\ arg' = [arg EXCEPT ![p] = a]
    /\ loc' = [loc EXCEPT ![p] = l]

Call(op, fid) == [NoArg EXCEPT !.op = op, !.fid = fid]
Rowcount(hit) == [NoLoc EXCEPT !.rc = IF hit THEN 1 ELSE 0]
Snapshot(fs) == [NoLoc EXCEPT !.snap = fs]

\* ------------------------------------------------ claim protocol: guards

\* mutant: the UPDATE of feature_mark_passing without its passes = 0 guard
MarkPassingMatches_Unguarded(fs, fid) == Exists(fs, fid)

\* UPDATE features SET passes = 1, in_progress = 0 WHERE id = :id AND passes = 0
MarkPassingMatches(fs, fid) == Exists(fs, fid) /\ ~fs[fid].passes

\* mutant: the claim UPDATE without its in_progress = 0 guard
ClaimMatches_IgnoresInProgress(fs, fid) == Exists(fs, fid) /\ ~fs[fid].passes

\* mutant: the claim UPDATE without its passes = 0 guard
ClaimMatches_IgnoresPasses(fs, fid) == Exists(fs, fid) /\ ~fs[fid].in_progress

\* UPDATE features SET in_progress = 1
\* WHERE id = :id AND passes = 0 AND in_progress = 0
ClaimMatches(fs, fid) ==
    Exists(fs, fid) /\ ~fs[fid].passes /\ ~fs[fid].in_progress

\* mutant: the subquery of feature_skip without its + 1
SkipPriority_NoIncrement(fs) == MaxPriorityOf(fs)

\* (SELECT COALESCE(MAX(priority), 0) + 1 FROM features)
SkipPriority(fs) == MaxPriorityOf(fs) + 1

\* --------------------------------------------------- feature_mark_passing

\* mutant: the UPDATE of feature_mark_passing clearing in_progress on every
\* row and not only on the row it completes
feature_mark_passing_update_ClearsAllClaims(p, fid) ==
    /\ Start(p)
    /\ lock = 0
    /\ LET hit == MarkPassingMatches(features, fid) IN
        /\ features' = IF hit
              THEN [i \in DOMAIN features |->
                      [features[i] EXCEPT !.passes = (i = fid) \/ features[i].passes,
                                          !.in_progress = FALSE]]
              ELSE features
        /\ Goto(p, "mark_passing_read", Call("mark_passing", fid),
                Rowcount(hit))
    /\ UNCHANGED lock

feature_mark_passing_update(p, fid) ==
    /\ Start(p)
    /\ lock = 0
    /\ LET hit == MarkPassingMatches(features, fid) IN
        /\ features' = IF hit
              THEN [features EXCEPT ![fid].passes = TRUE, ![fid].in_progress = FALSE]
              ELSE features
        /\ Goto(p, "mark_passing_read", Call("mark_passing", fid),
                Rowcount(hit))
    /\ UNCHANGED lock

feature_mark_passing_read(p) ==
    /\ At(p, "mark_passing_read")
    /\ LET fid == arg[p].fid IN
        IF loc[p].rc = 0
        THEN IF ~Exists(features, fid) THEN Return(p, Call("mark_passing", fid), "not_found")
             ELSE IF features[fid].passes
                  THEN Return(p, Call("mark_passing", fid), "already_passing")
                  ELSE Return(p, Call("mark_passing", fid), "unknown")
        ELSE Return(p, Call("mark_passing", fid), "success")
    /\ UNCHANGED <<features, lock>>

\* --------------------------------------------------- feature_mark_failing

feature_mark_failing_read(p, fid) ==
    /\ Start(p)
    /\ IF ~Exists(features, fid)
       THEN Return(p, Call("mark_failing", fid), "not_found")
       ELSE Goto(p, "mark_failing_update", Call("mark_failing", fid), NoLoc)
    /\ UNCHANGED <<features, lock>>

\* mutant: the UPDATE of feature_mark_failing also moving the feature to the
\* back of the queue, as feature_skip does
feature_mark_failing_update_Requeues(p) ==
    /\ At(p, "mark_failing_update")
    /\ lock = 0
    /\ LET fid == arg[p].fid IN
        /\ features' = [features EXCEPT ![fid].passes = FALSE, ![fid].in_progress = FALSE,
                                        ![fid].priority = SkipPriority(features)]
        /\ Return(p, Call("mark_failing", fid), "success")
    /\ UNCHANGED lock

feature_mark_failing_update(p) ==
    /\ At(p, "mark_failing_update")
    /\ lock = 0
    /\ LET fid == arg[p].fid IN
        /\ features' = [features EXCEPT ![fid].passes = FALSE, ![fid].in_progress = FALSE]
        /\ Return(p, Call("mark_failing", fid), "success")
    /\ UNCHANGED lock

\* ------------------------------------------------------------ feature_skip

feature_skip_read(p, fid) ==
    /\ Start(p)
    /\ IF ~Exists(features, fid)
       THEN Return(p, Call("skip", fid), "not_found")
       ELSE IF features[fid].passes
            THEN Return(p, Call("skip", fid), "already_passing")
            ELSE /\ MaxPriorityOf(features) < MaxPriority
                 /\ Goto(p, "skip_update", Call("skip", fid), NoLoc)
    /\ UNCHANGED <<features, lock>>

\* mutant: the UPDATE of feature_skip writing in_progress = 1
feature_skip_update_SetsInProgress(p) ==
    /\ At(p, "skip_update")
    /\ lock = 0
    /\ LET fid == arg[p].fid IN
        /\ features' = [features EXCEPT ![fid].priority = SkipPriority(features),
                                        ![fid].in_progress = TRUE]
        /\ Return(p, Call("skip", fid), "success")
    /\ UNCHANGED lock

feature_skip_update(p) ==
    /\ At(p, "skip_update")
    /\ lock = 0
    /\ LET fid == arg[p].fid IN
        /\ features' = [features EXCEPT ![fid].priority = SkipPriority(features),
                                        ![fid].in_progress = FALSE]
        /\ Return(p, Call("skip", fid), "success")
    /\ UNCHANGED lock

\* ------------------------------------------------ feature_mark_in_progress

feature_mark_in_progress_update(p, fid) ==
    /\ Start(p)
    /\ lock = 0
    /\ LET hit == ClaimMatches(features, fid) IN
        /\ features' = IF hit THEN [features EXCEPT ![fid].in_progress = TRUE]
                       ELSE features
        /\ Goto(p, "mark_in_progress_read", Call("mark_in_progress", fid),
                Rowcount(hit))
    /\ UNCHANGED lock

feature_mark_in_progress_read(p) ==
    /\ At(p, "mark_in_progress_read")
    /\ LET fid == arg[p].fid IN
        IF loc[p].rc = 0
        THEN IF ~Exists(features, fid)
             THEN Return(p, Call("mark_in_progress", fid), "not_found")
             ELSE IF features[fid].passes
                  THEN Return(p, Call("mark_in_progress", fid), "already_passing")
                  ELSE IF features[fid].in_progress
                       THEN Return(p, Call("mark_in_progress", fid), "already_in_progress")
                       ELSE Return(p, Call("mark_in_progress", fid), "unknown")
        ELSE Return(p, Call("mark_in_progress", fid), "claimed")
    /\ UNCHANGED <<features, lock>>

\* --------------------------------------------------- feature_claim_and_get

feature_claim_and_get_read(p, fid) ==
    /\ Start(p)
    /\ IF ~Exists(features, fid)
       THEN Return(p, Call("claim_and_get", fid), "not_found")
       ELSE IF features[fid].passes
            THEN Return(p, Call("claim_and_get", fid), "already_passing")
            ELSE Goto(p, "claim_and_get_update", Call("claim_and_get", fid), NoLoc)
    /\ UNCHANGED <<features, lock>>

feature_claim_and_get_update(p) ==
    /\ At(p, "claim_and_get_update")
    /\ lock = 0
    /\ LET fid == arg[p].fid
           hit == ClaimMatches(features, fid) IN
        /\ features' = IF hit THEN [features EXCEPT ![fid].in_progress = TRUE]
                       ELSE features
        /\ Goto(p, "claim_and_get_refresh", arg[p],
                Rowcount(hit))
    /\ UNCHANGED lock

feature_claim_and_get_refresh(p) ==
    /\ At(p, "claim_and_get_refresh")
    /\ LET fid == arg[p].fid IN
        IF loc[p].rc = 0 /\ ~features[fid].in_progress
        THEN Return(p, Call("claim_and_get", fid), "unknown")
        ELSE IF loc[p].rc = 0
             THEN Return(p, Call("claim_and_get", fid), "already_claimed")
             ELSE Return(p, Call("claim_and_get", fid), "claimed")
    /\ UNCHANGED <<features, lock>>

\* ----------------------------------------------- feature_clear_in_progress

feature_clear_in_progress_read(p, fid) ==
    /\ Start(p)
    /\ IF ~Exists(features, fid)
       THEN Return(p, Call("clear_in_progress", fid), "not_found")
       ELSE Goto(p, "clear_in_progress_update", Call("clear_in_progress", fid), NoLoc)
    /\ UNCHANGED <<features, lock>>

\* mutant: the UPDATE of feature_clear_in_progress with the SET clause of
\* feature_mark_failing
feature_clear_in_progress_update_ResetsPasses(p) ==
    /\ At(p, "clear_in_progress_update")
    /\ lock = 0
    /\ LET fid == arg[p].fid IN
        /\ features' = [features EXCEPT ![fid].passes = FALSE, ![fid].in_progress = FALSE]
        /\ Return(p, Call("clear_in_progress", fid), "success")
    /\ UNCHANGED lock

feature_clear_in_progress_update(p) ==
    /\ At(p, "clear_in_progress_update")
    /\ lock = 0
    /\ LET fid == arg[p].fid IN
        /\ features' = [features EXCEPT ![fid].in_progress = FALSE]
        /\ Return(p, Call("clear_in_progress", fid), "success")
    /\ UNCHANGED lock


\* ------------------------------------------------------ atomic_transaction

\* with atomic_transaction(_session_maker) as session: BEGIN IMMEDIATE takes
\* the write lock; the rows the handler queries are the ones it sees now
atomic_transaction_enter(p) ==
    /\ lock = 0
    /\ lock' = p

\* leaving the with block commits and releases the lock
atomic_transaction_exit(p) ==
    /\ lock' = 0

\* ---------------------------------------------------------- cycle detector

RECURSIVE ReachFrom(_, _, _)
\* ids reached from the frontier by following dependency edges, visited set kept
ReachFrom(fs, frontier, visited) ==
    IF frontier = {} THEN visited
    ELSE LET next == UNION {Range(fs[i].dependencies) : i \in frontier \cap (1..Len(fs))}
         IN ReachFrom(fs, next \ (visited \cup frontier), visited \cup frontier)

\* mutant: the detector looking only at the dependencies target has itself
would_create_circular_dependency_DirectOnly(fs, source_id, target_id) ==
    \/ source_id = target_id
    \/ Exists(fs, target_id) /\ source_id \in Range(fs[target_id].dependencies)

\* whether "source depends on target" closes a cycle: source = target, or
\* source is reached from target along the existing dependency edges
would_create_circular_dependency(fs, source_id, target_id) ==
    \/ source_id = target_id
    \/ source_id \in ReachFrom(fs, {target_id}, {})

\* ---------------------------------------------------------- feature_create

\* mutant: feature_create reading MAX(priority) on a plain session, outside
\* any transaction, and inserting later
feature_create_begin_NoTransaction(p, cap) ==
    /\ Start(p)
    /\ Len(features) < cap
    /\ Goto(p, "create_commit", Call("create", 0), Snapshot(features))
    /\ UNCHANGED <<features, lock>>

feature_create_begin(p, cap) ==
    /\ Start(p)
    /\ Len(features) < cap
    /\ atomic_transaction_enter(p)
    /\ Goto(p, "create_commit", Call("create", 0), Snapshot(features))
    /\ UNCHANGED features

feature_create_commit(p) ==
    /\ At(p, "create_commit")
    /\ LET next_priority == MaxPriorityOf(loc[p].snap) + 1 IN
        /\ features' = Append(features, NewFeature(next_priority))
        /\ Return(p, arg[p], "success")
    /\ atomic_transaction_exit(p)

\* ----------------------------------------------------- feature_create_bulk

\* a depends_on_indices entry: an int, or a value that is no int
Index(n) == [int |-> TRUE, val |-> n]
NotAnInt == [int |-> FALSE, val |-> 0]

\* mutant: the loop over indices without its forward-reference check
RECURSIVE IndexError_NoForwardCheck(_, _)
IndexError_NoForwardCheck(indices, i) ==
    IF indices = <<>> THEN "none"
    ELSE LET idx == Head(indices) IN
         IF ~idx.int \/ idx.val < 0 THEN "invalid_index"
         ELSE IndexError_NoForwardCheck(Tail(indices), i)

\* for idx in indices: the first entry that is refused, and why
RECURSIVE IndexError(_, _)
IndexError(indices, i) ==
    IF indices = <<>> THEN "none"
    ELSE LET idx == Head(indices) IN
         IF ~idx.int \/ idx.val < 0 THEN "invalid_index"
         ELSE IF idx.val >= i THEN "forward_reference"
         ELSE IndexError(Tail(indices), i)

\* the checks made on the spec at (0-based) position i
SpecError(spec, i) ==
    IF ~spec.fields THEN "missing_fields"
    ELSE IF spec.indices = <<>> THEN "none"
    ELSE IF Len(spec.indices) > MAX_DEPENDENCIES_PER_FEATURE THEN "too_many"
    ELSE IF Len(spec.indices) # Cardinality(Range(spec.indices)) THEN "duplicate"
    ELSE IndexError(spec.indices, i)

\* first pass: the error of the first spec that has one
RECURSIVE BulkError(_, _)
BulkError(specs, i) ==
    IF i >= Len(specs) THEN "none"
    ELSE IF SpecError(specs[i + 1], i) # "none" THEN SpecError(specs[i + 1], i)
    ELSE BulkError(specs, i + 1)

\* third pass: sorted([created_features[idx].id for idx in indices])
ResolvedDependencies(indices, first_id) ==
    sorted([k \in 1..Len(indices) |-> first_id + indices[k].val])

\* second and third pass: the rows of the batch, ids from first_id on
CreatedFeatures(specs, start_priority, first_id) ==
    [k \in 1..Len(specs) |->
        [NewFeature(start_priority + (k - 1)) EXCEPT
            !.dependencies = ResolvedDependencies(specs[k].indices, first_id)]]

\* second pass and flush: the rows added to the session, in id order
InsertedFeatures(specs, start_priority) ==
    [k \in 1..Len(specs) |-> NewFeature(start_priority + (k - 1))]

feature_create_bulk_begin(p, specs, cap) ==
    /\ Start(p)
    /\ Len(features) + Len(specs) <= cap
    /\ atomic_transaction_enter(p)
    /\ Goto(p, "create_bulk_flush", [Call("create_bulk", 0) EXCEPT !.specs = specs],
            Snapshot(features))
    /\ UNCHANGED features

\* mutant: the flushed rows are visible to the other connections before the
\* transaction commits
feature_create_bulk_flush_Publishes(p) ==
    /\ At(p, "create_bulk_flush")
    /\ LET specs == arg[p].specs
           start_priority == MaxPriorityOf(loc[p].snap) + 1
           err == BulkError(specs, 0)
       IN IF err # "none"
          THEN /\ Return(p, arg[p], err)
               /\ atomic_transaction_exit(p)
               /\ UNCHANGED features
          ELSE /\ Goto(p, "create_bulk_commit", arg[p],
                       Snapshot(loc[p].snap \o InsertedFeatures(specs, start_priority)))
               /\ features' = features \o InsertedFeatures(specs, start_priority)
               /\ UNCHANGED lock

\* first pass, second pass and flush: the batch is refused, or its rows are
\* added to the session, where only this transaction sees them
feature_create_bulk_flush(p) ==
    /\ At(p, "create_bulk_flush")
    /\ LET specs == arg[p].specs
           start_priority == MaxPriorityOf(loc[p].snap) + 1
           err == BulkError(specs, 0)
       IN IF err # "none"
          THEN /\ Return(p, arg[p], err)
               /\ atomic_transaction_exit(p)
          ELSE /\ Goto(p, "create_bulk_commit", arg[p],
                       Snapshot(loc[p].snap \o InsertedFeatures(specs, start_priority)))
               /\ UNCHANGED lock
    /\ UNCHANGED features

\* third pass and commit: the dependencies are written on the rows of the
\* session and the transaction makes them visible
feature_create_bulk_commit(p) ==
    /\ At(p, "create_bulk_commit")
    /\ LET specs == arg[p].specs
           first_id == Len(loc[p].snap) - Len(specs) + 1
           stored == SubSeq(loc[p].snap, 1, first_id - 1)
           start_priority == MaxPriorityOf(stored) + 1
       IN /\ features' = stored \o CreatedFeatures(specs, start_priority, first_id)
          /\ Return(p, arg[p], "success")
    /\ atomic_transaction_exit(p)

\* -------------------------------------------------- feature_add_dependency

\* mutant: the handler reads all_features on a plain session, outside any
\* transaction, and writes later
feature_add_dependency_begin_NoTransaction(p, fid, dep) ==
    /\ Start(p)
    /\ IF fid = dep
       THEN Return(p, [Call("add_dependency", fid) EXCEPT !.dep = dep], "self_reference")
       ELSE Goto(p, "add_dependency_commit", [Call("add_dependency", fid) EXCEPT !.dep = dep],
                 Snapshot(features))
    /\ UNCHANGED <<features, lock>>

feature_add_dependency_begin(p, fid, dep) ==
    /\ Start(p)
    /\ IF fid = dep
       THEN /\ Return(p, [Call("add_dependency", fid) EXCEPT !.dep = dep], "self_reference")
            /\ UNCHANGED lock
       ELSE /\ atomic_transaction_enter(p)
            /\ Goto(p, "add_dependency_commit", [Call("add_dependency", fid) EXCEPT !.dep = dep],
                    Snapshot(features))
    /\ UNCHANGED features

\* mutant: the checks of feature_add_dependency without the cycle check
AddDependencyCheck_NoCycleCheck(all_features, fid, dep) ==
    IF ~Exists(all_features, fid) THEN "not_found"
    ELSE IF ~Exists(all_features, dep) THEN "dependency_not_found"
    ELSE IF Len(all_features[fid].dependencies) >= MAX_DEPENDENCIES_PER_FEATURE
         THEN "limit"
    ELSE IF dep \in Range(all_features[fid].dependencies) THEN "exists"
    ELSE "success"

\* mutant: the cycle check of feature_add_dependency called with source and
\* target exchanged
AddDependencyCheck_SwappedCycleCheck(all_features, fid, dep) ==
    IF ~Exists(all_features, fid) THEN "not_found"
    ELSE IF ~Exists(all_features, dep) THEN "dependency_not_found"
    ELSE IF Len(all_features[fid].dependencies) >= MAX_DEPENDENCIES_PER_FEATURE
         THEN "limit"
    ELSE IF dep \in Range(all_features[fid].dependencies) THEN "exists"
    ELSE IF would_create_circular_dependency(all_features, dep, fid) THEN "circular"
    ELSE "success"

\* the outcome of the checks made inside the transaction
AddDependencyCheck(all_features, fid, dep) ==
    IF ~Exists(all_features, fid) THEN "not_found"
    ELSE IF ~Exists(all_features, dep) THEN "dependency_not_found"
    ELSE IF Len(all_features[fid].dependencies) >= MAX_DEPENDENCIES_PER_FEATURE
         THEN "limit"
    ELSE IF dep \in Range(all_features[fid].dependencies) THEN "exists"
    ELSE IF would_create_circular_dependency(all_features, fid, dep) THEN "circular"
    ELSE "success"

\* mutant: feature_add_dependency appending the dependency before its checks
\* and leaving it there when a check fails
feature_add_dependency_commit_WritesFirst(p) ==
    /\ At(p, "add_dependency_commit")
    /\ LET fid == arg[p].fid
           dep == arg[p].dep
           all_features == loc[p].snap
           outcome == AddDependencyCheck(all_features, fid, dep)
       IN /\ features' = IF Exists(all_features, fid)
                THEN [features EXCEPT ![fid].dependencies =
                          sorted(all_features[fid].dependencies \o <<dep>>)]
                ELSE features
          /\ Return(p, arg[p], outcome)
    /\ atomic_transaction_exit(p)

feature_add_dependency_commit(p) ==
    /\ At(p, "add_dependency_commit")
    /\ LET fid == arg[p].fid
           dep == arg[p].dep
           all_features == loc[p].snap
           outcome == AddDependencyCheck(all_features, fid, dep)
       IN /\ features' = IF outcome = "success"
                THEN [features EXCEPT ![fid].dependencies =
                          sorted(all_features[fid].dependencies \o <<dep>>)]
                ELSE features
          /\ Return(p, arg[p], outcome)
    /\ atomic_transaction_exit(p)

\* ----------------------------------------------- feature_remove_dependency

feature_remove_dependency_begin(p, fid, dep) ==
    /\ Start(p)
    /\ atomic_transaction_enter(p)
    /\ Goto(p, "remove_dependency_commit",
            [Call("remove_dependency", fid) EXCEPT !.dep = dep],
            Snapshot(features))
    /\ UNCHANGED features

RemoveDependencyCheck(all_features, fid, dep) ==
    IF ~Exists(all_features, fid) THEN "not_found"
    ELSE IF dep \notin Range(all_features[fid].dependencies) THEN "not_exists"
    ELSE "success"

\* mutant: feature_remove_dependency also returning the feature to pending
feature_remove_dependency_commit_ResetsFlags(p) ==
    /\ At(p, "remove_dependency_commit")
    /\ LET fid == arg[p].fid
           dep == arg[p].dep
           all_features == loc[p].snap
           outcome == RemoveDependencyCheck(all_features, fid, dep)
       IN /\ features' = IF outcome = "success"
                THEN [features EXCEPT ![fid].dependencies =
                          Without(all_features[fid].dependencies, dep),
                                      ![fid].in_progress = FALSE]
                ELSE features
          /\ Return(p, arg[p], outcome)
    /\ atomic_transaction_exit(p)

feature_remove_dependency_commit(p) ==
    /\ At(p, "remove_dependency_commit")
    /\ LET fid == arg[p].fid
           dep == arg[p].dep
           all_features == loc[p].snap
           outcome == RemoveDependencyCheck(all_features, fid, dep)
       IN /\ features' = IF outcome = "success"
                THEN [features EXCEPT ![fid].dependencies =
                          Without(all_features[fid].dependencies, dep)]
                ELSE features
          /\ Return(p, arg[p], outcome)
    /\ atomic_transaction_exit(p)

\* ------------------------------------------------ feature_set_dependencies

\* mutant: the prechecks of feature_set_dependencies without the
\* self-reference check
SetDependenciesPrecheck_NoSelfCheck(fid, dependency_ids) ==
    IF Len(dependency_ids) > MAX_DEPENDENCIES_PER_FEATURE THEN "limit"
    ELSE IF Len(dependency_ids) # Cardinality(Range(dependency_ids)) THEN "duplicate"
    ELSE "none"

\* the checks made before the transaction is opened
SetDependenciesPrecheck(fid, dependency_ids) ==
    IF fid \in Range(dependency_ids) THEN "self_reference"
    ELSE IF Len(dependency_ids) > MAX_DEPENDENCIES_PER_FEATURE THEN "limit"
    ELSE IF Len(dependency_ids) # Cardinality(Range(dependency_ids)) THEN "duplicate"
    ELSE "none"

feature_set_dependencies_begin(p, fid, dependency_ids) ==
    /\ Start(p)
    /\ IF SetDependenciesPrecheck(fid, dependency_ids) # "none"
       THEN /\ Return(p, [Call("set_dependencies", fid) EXCEPT !.deps = dependency_ids],
                      SetDependenciesPrecheck(fid, dependency_ids))
            /\ UNCHANGED lock
       ELSE /\ atomic_transaction_enter(p)
            /\ Goto(p, "set_dependencies_commit",
                    [Call("set_dependencies", fid) EXCEPT !.deps = dependency_ids],
                    Snapshot(features))
    /\ UNCHANGED features

\* all_features with the row of fid carrying the requested dependencies
TestFeatures(all_features, fid, dependency_ids) ==
    [i \in 1..Len(all_features) |->
        IF i = fid THEN [all_features[i] EXCEPT !.dependencies = dependency_ids]
        ELSE all_features[i]]

SetDependenciesCheck(all_features, fid, dependency_ids) ==
    IF ~Exists(all_features, fid) THEN "not_found"
    ELSE IF \E d \in Range(dependency_ids) : ~Exists(all_features, d) THEN "missing"
    ELSE IF \E d \in Range(dependency_ids) :
                would_create_circular_dependency(
                    TestFeatures(all_features, fid, dependency_ids), fid, d)
         THEN "circular"
    ELSE "success"

feature_set_dependencies_commit(p) ==
    /\ At(p, "set_dependencies_commit")
    /\ LET fid == arg[p].fid
           dependency_ids == arg[p].deps
           outcome == SetDependenciesCheck(loc[p].snap, fid, dependency_ids)
       IN /\ features' = IF outcome = "success"
                THEN [features EXCEPT ![fid].dependencies = sorted(dependency_ids)]
                ELSE features
          /\ Return(p, arg[p], outcome)
    /\ atomic_transaction_exit(p)

\* -------------------------------------------------------------- read tools

\* mutant: passing_ids collecting the features in progress
PassingIds_InProgress(fs) == {i \in 1..Len(fs) : fs[i].in_progress}

\* passing_ids = {f.id for f in all_features if f.passes}
PassingIds(fs) == {i \in 1..Len(fs) : fs[i].passes}

\* mutant: the loop of feature_get_ready without its test of the dependencies
feature_get_ready_IgnoresDependencies(fs) ==
    {i \in 1..Len(fs) : ~(fs[i].passes \/ fs[i].in_progress)}

\* mutant: the loop of feature_get_ready skipping only the passing features
feature_get_ready_IgnoresInProgress(fs) ==
    {i \in 1..Len(fs) :
        /\ ~fs[i].passes
        /\ \A k \in 1..Len(fs[i].dependencies) :
              fs[i].dependencies[k] \in PassingIds(fs)}

\* feature_get_ready: the ids appended to ready, before sort and limit
feature_get_ready(fs) ==
    {i \in 1..Len(fs) :
        /\ ~(fs[i].passes \/ fs[i].in_progress)
        /\ \A k \in 1..Len(fs[i].dependencies) :
              fs[i].dependencies[k] \in PassingIds(fs)}

\* mutant: blocking taken to be all of deps
Blocking_Unfiltered(fs, i) == fs[i].dependencies

\* feature_get_blocked: blocking = [d for d in deps if d not in passing_ids]
Blocking(fs, i) == NotIn(fs[i].dependencies, PassingIds(fs))

\* mutant: the loop of feature_get_blocked without its "if f.passes: continue"
feature_get_blocked_IncludesPassing(fs) ==
    [i \in {j \in 1..Len(fs) : Blocking(fs, j) # <<>>} |-> Blocking(fs, i)]

\* feature_get_blocked: id -> blocked_by of the rows appended to blocked
feature_get_blocked(fs) ==
    [i \in {j \in 1..Len(fs) : ~fs[j].passes /\ Blocking(fs, j) # <<>>} |->
        Blocking(fs, i)]

\* mutant: the status chain of feature_get_graph testing in_progress before
\* blocking
GraphStatus_InProgressFirst(fs, i) ==
    IF fs[i].passes THEN "done"
    ELSE IF fs[i].in_progress THEN "in_progress"
    ELSE IF Blocking(fs, i) # <<>> THEN "blocked"
    ELSE "pending"

\* feature_get_graph: the status given to the node of row i
GraphStatus(fs, i) ==
    IF fs[i].passes THEN "done"
    ELSE IF Blocking(fs, i) # <<>> THEN "blocked"
    ELSE IF fs[i].in_progress THEN "in_progress"
    ELSE "pending"

\* for dep_id in deps: edges.append({"source": dep_id, "target": f.id})
EdgesOf(deps, id) == [k \in 1..Len(deps) |-> [source |-> deps[k], target |-> id]]

\* the edges appended for the rows from i on
RECURSIVE EdgesFrom(_, _)
EdgesFrom(fs, i) ==
    IF i > Len(fs) THEN <<>>
    ELSE EdgesOf(fs[i].dependencies, i) \o EdgesFrom(fs, i + 1)

\* feature_get_graph: nodes and edges
feature_get_graph(fs) ==
    [nodes |-> [i \in 1..Len(fs) |->
                  [id |-> i, status |-> GraphStatus(fs, i), priority |-> fs[i].priority,
                   dependencies |-> fs[i].dependencies]],
     edges |-> EdgesFrom(fs, 1)]

\* ------------------------------------------------------------------ inputs

\* lists of at most n elements of S
SeqsUpTo(S, n) == UNION {[1..k -> S] : k \in 0..n}

\* dependency_ids a caller may pass to feature_set_dependencies: every list
\* within the limit, and one that is over it
DependencyLists(ids) ==
    SeqsUpTo(ids, MAX_DEPENDENCIES_PER_FEATURE)
        \cup {[k \in 1..(MAX_DEPENDENCIES_PER_FEATURE + 1) |-> k]}

\* depends_on_indices a caller may pass: short lists of small, negative and
\* non-int entries, and one list that is over the limit
IndexValues == {Index(-1), Index(0), Index(1), NotAnInt}
IndexLists ==
    SeqsUpTo(IndexValues, MAX_DEPENDENCIES_PER_FEATURE)
        \cup {[k \in 1..(MAX_DEPENDENCIES_PER_FEATURE + 1) |-> Index(k - 1)]}

\* feature dicts: with category, name, description and steps and one of the
\* given depends_on_indices, or with a required field missing
FeatureSpecs(lists) ==
    {[fields |-> TRUE, indices |-> l] : l \in lists}
        \cup {[fields |-> FALSE, indices |-> <<>>]}

\* every batch over IndexLists
Batches == SeqsUpTo(FeatureSpecs(IndexLists), MaxBatch)

\* batches of features that depend on nothing or on the one before them
ChainBatches ==
    {b \in SeqsUpTo(FeatureSpecs({<<>>, <<Index(0)>>, <<Index(1)>>}), MaxBatch) :
        \A k \in 1..Len(b) : b[k].indices \in {<<>>, <<Index(k - 2)>>}}

\* ----------------------------------------------------------- specifications

Idle ==
    /\ lock = 0
    /\ pc = [p \in Procs |-> "idle"]
    /\ arg = [p \in Procs |-> NoArg]
    /\ loc = [p \in Procs |-> NoLoc]
    /\ result = [p \in Procs |-> NoResult]

\* the table as create_database leaves it, and servers that take any calls
Init ==
    /\ features = <<>>
    /\ start = features
    /\ Idle
    /\ quota = [p \in Procs |-> -1]

\* ids a caller may pass: every id a row can have, and one that never exists
Ids(cap) == 1..(cap + 1)

Claim(p, ids) ==
    \/ \E fid \in ids : feature_mark_in_progress_update(p, fid)
    \/ feature_mark_in_progress_read(p)
    \/ \E fid \in ids : feature_claim_and_get_read(p, fid)
    \/ feature_claim_and_get_update(p)
    \/ feature_claim_and_get_refresh(p)

MarkPassing(p, ids) ==
    \/ \E fid \in ids : feature_mark_passing_update(p, fid)
    \/ feature_mark_passing_read(p)

MarkFailing(p, ids) ==
    \/ \E fid \in ids : feature_mark_failing_read(p, fid)
    \/ feature_mark_failing_update(p)

Skip(p, ids) ==
    \/ \E fid \in ids : feature_skip_read(p, fid)
    \/ feature_skip_update(p)

ClearInProgress(p, ids) ==
    \/ \E fid \in ids : feature_clear_in_progress_read(p, fid)
    \/ feature_clear_in_progress_update(p)

Create(p, cap) ==
    \/ feature_create_begin(p, cap)
    \/ feature_create_commit(p)

CreateBulk(p, batches, cap) ==
    \/ \E specs \in batches : feature_create_bulk_begin(p, specs, cap)
    \/ feature_create_bulk_flush(p)
    \/ feature_create_bulk_commit(p)

AddRemove(p, ids) ==
    \/ \E fid, dep \in ids : feature_add_dependency_begin(p, fid, dep)
    \/ feature_add_dependency_commit(p)
    \/ \E fid, dep \in ids : feature_remove_dependency_begin(p, fid, dep)
    \/ feature_remove_dependency_commit(p)

SetDependencies(p, ids, lists) ==
    \/ \E fid \in ids : \E l \in lists : feature_set_dependencies_begin(p, fid, l)
    \/ feature_set_dependencies_commit(p)

\* one server: features are created, wired, claimed, completed and reopened
Next ==
    \/ Create(1, MaxFeatures) \/ CreateBulk(1, ChainBatches, MaxFeatures)
    \/ AddRemove(1, Ids(MaxFeatures))
    \/ Claim(1, Ids(MaxFeatures)) \/ MarkPassing(1, Ids(MaxFeatures))
    \/ MarkFailing(1, Ids(MaxFeatures))

Spec == Init /\ [][Next]_vars

\* the servers of parallel mode running the claim protocol on a short backlog
NextStatus ==
    \E p \in Procs :
        \/ Claim(p, Ids(MaxRows)) \/ MarkPassing(p, Ids(MaxRows))
        \/ MarkFailing(p, Ids(MaxRows)) \/ ClearInProgress(p, Ids(MaxRows))
        \/ Skip(p, Ids(MaxRows))
        \/ Create(p, MaxRows) \/ CreateBulk(p, ChainBatches, MaxRows)

SpecStatus == Init /\ [][NextStatus]_vars

\* the ids and the dependency_ids the callers of the dependency tools pass
DepIds == Ids(MaxFeatures)
DepLists == DependencyLists(DepIds)

\* one server creating features and editing the dependency graph
NextDeps ==
    \/ AddRemove(1, DepIds) \/ SetDependencies(1, DepIds, DepLists)
    \/ Create(1, MaxFeatures) \/ CreateBulk(1, ChainBatches, MaxFeatures)

SpecDeps == Init /\ [][NextDeps]_vars

\* one server creating features, one by one and in bulk, and skipping them
NextBulk ==
    \/ CreateBulk(1, Batches, MaxFeatures) \/ Create(1, MaxFeatures)
    \/ Skip(1, Ids(MaxFeatures))

SpecBulk == Init /\ [][NextBulk]_vars

\* the flags a row can have
Flags == {<<FALSE, FALSE>>, <<FALSE, TRUE>>, <<TRUE, FALSE>>}

\* backlogs of MaxRows features created one by one, each pending, claimed or
\* passing
RowStores ==
    {[i \in 1..MaxRows |->
        [priority |-> i, passes |-> f[i][1], in_progress |-> f[i][2],
         dependencies |-> <<>>]] : f \in [1..MaxRows -> Flags]}

\* the servers of parallel mode, each making one call of the claim protocol
InitRace ==
    /\ features \in RowStores
    /\ start = features
    /\ Idle
    /\ quota = [p \in Procs |-> 1]

NextRace ==
    \E p \in Procs :
        \/ Claim(p, Ids(MaxRows)) \/ MarkPassing(p, Ids(MaxRows))
        \/ MarkFailing(p, Ids(MaxRows)) \/ ClearInProgress(p, Ids(MaxRows))
        \/ Skip(p, Ids(MaxRows))

SpecRace == InitRace /\ [][NextRace]_vars

\* fs with the dependencies of row fid replaced by deps
WithDependencies(fs, fid, deps) == [fs EXCEPT ![fid].dependencies = deps]

\* the dependency relation of fs has no cycle: the rows can be ranked so that
\* every feature ranks above each feature it depends on
Acyclic(fs) ==
    \E rank \in [1..Len(fs) -> 1..Len(fs)] :
        \A i \in 1..Len(fs) : \A d \in Range(fs[i].dependencies) :
            d \in 1..Len(fs) => rank[d] < rank[i]

\* the ids and the dependency_ids the racing callers pass
RaceIds == Ids(MaxRows)
RaceLists == DependencyLists(RaceIds)

\* ascending lists of ids of rows, within the limit
StoredLists ==
    {l \in SeqsUpTo(1..MaxRows, MAX_DEPENDENCIES_PER_FEATURE) :
        \A k \in 1..(Len(l) - 1) : l[k] < l[k + 1]}

\* backlogs of MaxRows pending features wired into an acyclic graph by earlier
\* dependency edits
GraphStores ==
    {fs \in {[i \in 1..MaxRows |->
                [priority |-> i, passes |-> FALSE, in_progress |-> FALSE,
                 dependencies |-> d[i]]] : d \in [1..MaxRows -> StoredLists]} :
        Acyclic(fs)}

\* the servers of parallel mode, each making one edit of the dependency graph
InitDepsRace ==
    /\ features \in GraphStores
    /\ start = features
    /\ Idle
    /\ quota = [p \in Procs |-> 1]

NextDepsRace ==
    \E p \in Procs : AddRemove(p, RaceIds) \/ SetDependencies(p, RaceIds, RaceLists)

SpecDepsRace == InitDepsRace /\ [][NextDepsRace]_vars

AllDone == \A p \in Procs : pc[p] = "done"

\* the processes whose call was one of ops on feature fid
Callers(ops, fid) == {p \in Procs : arg[p].op \in ops /\ arg[p].fid = fid}

\* ------------------------------------------------------------------ claims

ClaimOps == {"mark_in_progress", "claim_and_get"}

\* the feature was pending when the servers started, and every call made on
\* it was a claim
OnlyClaimed(fid) ==
    /\ ~start[fid].passes /\ ~start[fid].in_progress
    /\ \A p \in Procs : arg[p].fid = fid => arg[p].op \in ClaimOps

\* C1 (at-most-one-claim): when the only calls made on a pending feature are
\* claims, made concurrently by any of the processes, then once all have
\* returned exactly one of them is a fresh success, every other one reports
\* already_claimed or the already-in-progress error, and the feature's
\* in_progress flag, once set, was never set again: the flag is set, and no
\* step before cleared it.
C1_AtMostOneClaim ==
    /\ [](\A fid \in 1..MaxRows :
            (AllDone /\ OnlyClaimed(fid) /\ Callers(ClaimOps, fid) # {}) =>
                /\ Cardinality({p \in Callers(ClaimOps, fid) : result[p] = "claimed"}) = 1
                /\ \A p \in Callers(ClaimOps, fid) :
                      result[p] \in {"claimed", "already_claimed", "already_in_progress"}
                /\ \A p \in Callers({"claim_and_get"}, fid) :
                      result[p] # "already_in_progress"
                /\ \A p \in Callers({"mark_in_progress"}, fid) :
                      result[p] # "already_claimed"
                /\ features[fid].in_progress)
    /\ [][\A fid \in 1..MaxRows :
            (\A p \in Procs : arg'[p].fid = fid => arg'[p].op \in ClaimOps)
                => (features[fid].in_progress => features'[fid].in_progress)]_vars

\* C1 witness: every process claimed the same pending feature, one freshly,
\* one through claim_and_get that found it claimed
C1_Witness ==
    /\ AllDone
    /\ OnlyClaimed(1)
    /\ Callers(ClaimOps, 1) = Procs
    /\ \E p \in Procs : result[p] = "claimed"
    /\ \E p \in Procs : result[p] = "already_claimed"

\* rows of fs other than fid are as in gs, and so are the priority and the
\* dependencies of fid
OnlyFlagsChange(fs, gs, fid) ==
    /\ Len(gs) = Len(fs)
    /\ \A i \in 1..Len(fs) : i # fid => gs[i] = fs[i]
    /\ gs[fid].priority = fs[fid].priority
    /\ gs[fid].dependencies = fs[fid].dependencies

\* C4 (in_progress implies not passing): in every reachable state, whatever
\* the servers' calls of the claim protocol and of create interleave to, no
\* feature has in_progress and passes both true.
C4_InProgressNotPassing ==
    \A i \in 1..Len(features) : ~(features[i].in_progress /\ features[i].passes)

\* C4 witness: a claim on a passing feature has just matched no row, while
\* another feature is claimed
C4_Witness ==
    \E p \in Procs :
        /\ pc[p] = "mark_in_progress_read"
        /\ loc[p].rc = 0
        /\ Exists(features, arg[p].fid)
        /\ features[arg[p].fid].passes
        /\ \E i \in 1..Len(features) : features[i].in_progress

\* p's step is the UPDATE of its feature_skip call
SkipCommits(p) == pc[p] = "skip_update" /\ pc'[p] # "skip_update"

\* C6 (skip monotonicity): right after the UPDATE of feature_skip(id) commits,
\* the priority of id is strictly greater than the priority of every other
\* feature; so of two skips on different ids, concurrent or back to back, the
\* later one ends strictly greater and the two priorities differ.
C6_SkipMonotonic ==
    /\ [][\A p \in Procs : SkipCommits(p) =>
            \A i \in 1..Len(features') :
                i # arg[p].fid =>
                    features'[arg[p].fid].priority > features'[i].priority]_vars
    /\ [](\A p, q \in Procs :
            (/\ AllDone
             /\ arg[p].op = "skip" /\ arg[q].op = "skip"
             /\ result[p] = "success" /\ result[q] = "success"
             /\ arg[p].fid # arg[q].fid)
                => features[arg[p].fid].priority # features[arg[q].fid].priority)

\* C6 witness: two processes have skipped different features, both after
\* reading their rows, and both have returned
C6_Witness ==
    \E p, q \in Procs :
        /\ AllDone
        /\ arg[p].op = "skip" /\ arg[q].op = "skip"
        /\ arg[p].fid # arg[q].fid
        /\ result[p] = "success" /\ result[q] = "success"
        /\ features[arg[q].fid].priority > features[arg[p].fid].priority
        /\ features[arg[p].fid].priority > MaxPriorityOf(start)

\* p's step is the UPDATE of its feature_mark_passing call
MarkPassingUpdates(p) == pc[p] = "idle" /\ pc'[p] = "mark_passing_read"

\* p's step is the return of its feature_mark_passing call
MarkPassingReturns(p) == pc[p] = "mark_passing_read" /\ pc'[p] # "mark_passing_read"

\* C10 (mark_passing is a guarded compare-and-swap): the UPDATE matches iff the
\* row exists with passes false at that moment, then sets passes and clears
\* in_progress and changes nothing else, and otherwise changes nothing; the call
\* succeeds iff it matched; and when no mark_failing is made on a feature that
\* was not passing, of the mark_passing calls made on it exactly one succeeds
\* and every other returns the already-passing error.
C10_MarkPassingCAS ==
    /\ [][\A p \in Procs : MarkPassingUpdates(p) =>
            LET fid == arg'[p].fid
                matches == Exists(features, fid) /\ ~features[fid].passes
            IN /\ (loc'[p].rc = 1) = matches
               /\ matches =>
                    /\ features'[fid].passes /\ ~features'[fid].in_progress
                    /\ OnlyFlagsChange(features, features', fid)
               /\ ~matches => features' = features]_vars
    /\ [][\A p \in Procs : MarkPassingReturns(p) =>
            /\ (result'[p] = "success") = (loc[p].rc = 1)
            /\ features' = features]_vars
    /\ [](\A fid \in 1..MaxRows :
            (/\ AllDone
             /\ ~start[fid].passes
             /\ Callers({"mark_failing"}, fid) = {}
             /\ Callers({"mark_passing"}, fid) # {})
                => /\ Cardinality({p \in Callers({"mark_passing"}, fid) :
                                      result[p] = "success"}) = 1
                   /\ \A p \in Callers({"mark_passing"}, fid) :
                         result[p] \in {"success", "already_passing"}
                   /\ features[fid].passes /\ ~features[fid].in_progress)

\* C10 witness: every process called mark_passing on the same non-passing
\* feature; one succeeded, another got the already-passing error
C10_Witness ==
    /\ AllDone
    /\ ~start[1].passes
    /\ Callers({"mark_passing"}, 1) = Procs
    /\ \E p \in Procs : result[p] = "success"
    /\ \E p \in Procs : result[p] = "already_passing"

\* feature_add_dependency(fid, dep) on fs would close a cycle
AddClosesCycle(fs, fid, dep) ==
    /\ Exists(fs, fid)
    /\ ~Acyclic(WithDependencies(fs, fid, Append(fs[fid].dependencies, dep)))

\* feature_set_dependencies(fid, deps) on fs would close a cycle
SetClosesCycle(fs, fid, deps) ==
    /\ Exists(fs, fid)
    /\ ~Acyclic(WithDependencies(fs, fid, deps))

\* p's step is the one in which its call of the tool is decided inside the
\* transaction
Decides(p, label) == pc[p] = label /\ pc'[p] # label

\* p's step is a call add_dependency(fid, dep) rejected before any transaction
AddRejectedEarly(p, fid, dep) ==
    /\ pc[p] = "idle"
    /\ pc'[p] # "add_dependency_commit"
    /\ feature_add_dependency_begin(p, fid, dep)

\* p's step is a call set_dependencies(fid, deps) rejected before any
\* transaction
SetRejectedEarly(p, fid, deps) ==
    /\ pc[p] = "idle"
    /\ pc'[p] # "set_dependencies_commit"
    /\ feature_set_dependencies_begin(p, fid, deps)

\* the results a cycle-closing add_dependency(fid, dep) may have
AddCycleResults(fs, fid, dep) ==
    {"circular"}
        \cup (IF fid = dep THEN {"self_reference"} ELSE {})
        \cup (IF Len(fs[fid].dependencies) >= MAX_DEPENDENCIES_PER_FEATURE
              THEN {"limit"} ELSE {})

\* the results a cycle-closing set_dependencies(fid, deps) may have
SetCycleResults(fs, fid, deps) ==
    {"circular"}
        \cup (IF fid \in Range(deps) THEN {"self_reference"} ELSE {})
        \cup (IF Len(deps) > MAX_DEPENDENCIES_PER_FEATURE THEN {"limit"} ELSE {})
        \cup (IF Len(deps) # Cardinality(Range(deps)) THEN {"duplicate"} ELSE {})
        \cup (IF \E d \in Range(deps) : ~Exists(fs, d) THEN {"missing"} ELSE {})

\* C2 as stated (acyclicity): the stored dependency relation never contains a
\* cycle, and every add or set call whose edges would close a cycle returns
\* the circular-dependency error and leaves every dependency list unchanged
\* (stated here for the cycles through another feature; a feature made to
\* depend on itself is the subject of C9).
C2_Original ==
    /\ [](Acyclic(features))
    /\ [][\A p \in Procs :
            /\ (Decides(p, "add_dependency_commit")
                    /\ arg[p].fid # arg[p].dep
                    /\ AddClosesCycle(features, arg[p].fid, arg[p].dep))
                => (result'[p] = "circular" /\ features' = features)
            /\ (Decides(p, "set_dependencies_commit")
                    /\ arg[p].fid \notin Range(arg[p].deps)
                    /\ SetClosesCycle(features, arg[p].fid, arg[p].deps))
                => (result'[p] = "circular" /\ features' = features)
            /\ pc[p] = "idle" => \A fid \in DepIds :
                 \A deps \in DepLists :
                     (/\ fid \notin Range(deps)
                      /\ SetRejectedEarly(p, fid, deps)
                      /\ SetClosesCycle(features, fid, deps))
                        => (result'[p] = "circular" /\ features' = features)]_vars

\* C2 as amended (acyclicity): the stored dependency relation never contains
\* a cycle, and every add or set call whose edges would close a cycle is
\* rejected and leaves every dependency list unchanged; the error is the
\* circular-dependency error unless an earlier validation rejects the call:
\* self-reference, the dependency limit, a duplicate or an unknown dependency.
C2_Acyclicity ==
    /\ [](Acyclic(features))
    /\ [][\A p \in Procs :
            /\ (Decides(p, "add_dependency_commit")
                    /\ AddClosesCycle(features, arg[p].fid, arg[p].dep))
                => /\ result'[p] \in AddCycleResults(features, arg[p].fid, arg[p].dep)
                   /\ features' = features
            /\ (Decides(p, "set_dependencies_commit")
                    /\ SetClosesCycle(features, arg[p].fid, arg[p].deps))
                => /\ result'[p] \in SetCycleResults(features, arg[p].fid, arg[p].deps)
                   /\ features' = features
            /\ pc[p] = "idle" => \A fid \in DepIds :
                /\ \A dep \in DepIds :
                     (AddRejectedEarly(p, fid, dep) /\ AddClosesCycle(features, fid, dep))
                        => /\ result'[p] \in AddCycleResults(features, fid, dep)
                           /\ features' = features
                /\ \A deps \in DepLists :
                     (SetRejectedEarly(p, fid, deps) /\ SetClosesCycle(features, fid, deps))
                        => /\ result'[p] \in SetCycleResults(features, fid, deps)
                           /\ features' = features]_vars

\* C2 witness: an edit has just been rejected as circular on a graph in which
\* one feature is at the dependency limit and another has been unwired
C2_Witness ==
    /\ \E p \in Procs : result[p] = "circular"
    /\ \E i \in 1..Len(features) :
          Len(features[i].dependencies) = MAX_DEPENDENCIES_PER_FEATURE
    /\ Len(features) = MaxFeatures

\* C9 (self-reference rejected): for every id x, existing or not,
\* add_dependency(x, x) and set_dependencies(x, D) with x in D return the
\* self-reference error without opening a transaction and change nothing; and
\* in no reachable state is a feature's id in its own dependency list.
C9_SelfReferenceRejected ==
    /\ [](\A i \in 1..Len(features) : i \notin Range(features[i].dependencies))
    /\ [][\A p \in Procs : pc[p] = "idle" =>
            \A x \in DepIds :
                /\ feature_add_dependency_begin(p, x, x)
                     => (result'[p] = "self_reference" /\ UNCHANGED <<features, lock>>)
                /\ \A deps \in DepLists :
                     (x \in Range(deps) /\ feature_set_dependencies_begin(p, x, deps))
                        => (result'[p] = "self_reference"
                                /\ UNCHANGED <<features, lock>>)]_vars

\* C9 witness: a self-referencing edit has just been rejected while features
\* with dependencies exist
C9_Witness ==
    /\ \E p \in Procs : result[p] = "self_reference" /\ pc[p] = "idle"
    /\ \E i \in 1..Len(features) : features[i].dependencies # <<>>

\* the calls that edit the dependency graph
EditOps == {"add_dependency", "set_dependencies"}

\* the edit a is accepted on fs when made alone
Acceptable(fs, a) ==
    IF a.op = "add_dependency" THEN AddDependencyCheck(fs, a.fid, a.dep) = "success"
    ELSE /\ SetDependenciesPrecheck(a.fid, a.deps) = "none"
         /\ SetDependenciesCheck(fs, a.fid, a.deps) = "success"

\* fs after the accepted edit a
Applied(fs, a) ==
    IF a.op = "add_dependency"
    THEN WithDependencies(fs, a.fid, sorted(Append(fs[a.fid].dependencies, a.dep)))
    ELSE WithDependencies(fs, a.fid, sorted(a.deps))

\* the edits of p and q are each acceptable on fs and close a cycle together
CyclicTogether(fs, p, q) ==
    /\ arg[p].op \in EditOps /\ arg[q].op \in EditOps
    /\ Acceptable(fs, arg[p]) /\ Acceptable(fs, arg[q])
    /\ ~Acyclic(Applied(Applied(fs, arg[p]), arg[q]))

TxLabels ==
    {"create_commit", "create_bulk_flush", "create_bulk_commit", "add_dependency_commit",
     "remove_dependency_commit", "set_dependencies_commit"}

\* C3 (no check-then-act race on dependency edits): a process inside a
\* dependency edit holds the write lock alone and the snapshot it checks is
\* the table as it is until it commits; so of two concurrent edits that are
\* each acceptable alone but cyclic together at most one commits, and the
\* stored graph is acyclic under every interleaving.
C3_NoCheckThenActRace ==
    /\ \A p \in Procs : pc[p] \in TxLabels =>
          /\ lock = p
          /\ loc[p].snap = features
          /\ \A q \in Procs \ {p} : pc[q] \notin TxLabels
    /\ Acyclic(features)
    /\ \A p, q \in Procs :
          (/\ AllDone
           /\ p # q
           /\ CyclicTogether(start, p, q)
           /\ \A r \in Procs \ {p, q} : result[r] # "success")
              => ~(result[p] = "success" /\ result[q] = "success")

\* C3 witness: add_dependency(1, 2) and add_dependency(2, 1) raced on two
\* unrelated features; one committed, the other was rejected as circular
C3_Witness ==
    \E p, q \in Procs :
        /\ AllDone
        /\ arg[p].op = "add_dependency" /\ arg[p].fid = 1 /\ arg[p].dep = 2
        /\ arg[q].op = "add_dependency" /\ arg[q].fid = 2 /\ arg[q].dep = 1
        /\ CyclicTogether(start, p, q)
        /\ result[p] = "circular" /\ result[q] = "success"

\* the spec at (1-based) position k of a batch is one the claim calls invalid
InvalidSpec(spec, k) ==
    \/ ~spec.fields
    \/ Len(spec.indices) > MAX_DEPENDENCIES_PER_FEATURE
    \/ \E a, b \in 1..Len(spec.indices) : a # b /\ spec.indices[a] = spec.indices[b]
    \/ \E a \in 1..Len(spec.indices) :
          \/ ~spec.indices[a].int
          \/ spec.indices[a].val < 0
          \/ spec.indices[a].val >= k - 1

\* l lists exactly the ids of S in ascending order
AscendingListOf(l, S) ==
    /\ Range(l) = S
    /\ \A a, b \in 1..Len(l) : a < b => l[a] < l[b]

\* C5 (bulk atomicity): when feature_create_bulk decides a batch of n specs,
\* it creates nothing and returns an error if some spec lacks a required
\* field, has more than MAX_DEPENDENCIES_PER_FEATURE indices, a duplicate
\* index, a negative or non-integer index or an index >= its own position;
\* otherwise it appends all n features, the one for spec i with priority
\* (max priority before the call) + 1 + i, passes and in_progress false, and
\* dependencies the ascending list of the ids given to the specs its
\* depends_on_indices name; the rows already stored are left as they were.
C5_BulkAtomicity ==
    [][\A p \in Procs :
        (Decides(p, "create_bulk_flush") \/ Decides(p, "create_bulk_commit")) =>
        LET specs == arg[p].specs
            n == Len(specs)
            before == Len(features)
            start_priority == MaxPriorityOf(features) + 1
        IN IF \E k \in 1..n : InvalidSpec(specs[k], k)
           THEN /\ features' = features
                /\ result'[p] \in Errors
           ELSE IF pc[p] = "create_bulk_flush"
           THEN /\ features' = features
                /\ pc'[p] = "create_bulk_commit"
           ELSE /\ Len(features') = before + n
                /\ \A i \in 1..before : features'[i] = features[i]
                /\ \A k \in 1..n :
                     LET f == features'[before + k] IN
                     /\ f.priority = start_priority + (k - 1)
                     /\ ~f.passes /\ ~f.in_progress
                     /\ AscendingListOf(f.dependencies,
                            {before + 1 + specs[k].indices[a].val :
                                a \in 1..Len(specs[k].indices)})
                /\ result'[p] = "success"]_vars

\* C5 witness: a batch of two, the second depending on the first, has been
\* created behind a feature that had been skipped
C5_Witness ==
    /\ Len(features) = 3
    /\ features[3].dependencies = <<2>>
    /\ features[2].dependencies = <<>>
    /\ features[1].priority > 1
    /\ features[2].priority = features[1].priority + 1
    /\ features[3].priority = features[1].priority + 2

\* C7 (readiness): in every state a feature is in the ready set computed by
\* feature_get_ready, before the limit, if and only if it is neither passing
\* nor in progress and every id in its dependency list names a passing
\* feature.
C7_Readiness ==
    \A i \in 1..Len(features) :
        (i \in feature_get_ready(features))
            <=> /\ ~features[i].passes
                /\ ~features[i].in_progress
                /\ \A d \in Range(features[i].dependencies) :
                      Exists(features, d) /\ features[d].passes

\* C7 witness: one feature is ready because what it depends on passes, and
\* one whose dependencies pass too is out of the ready set because it is
\* claimed
C7_Witness ==
    /\ \E i \in feature_get_ready(features) : features[i].dependencies # <<>>
    /\ \E i \in 1..Len(features) :
          /\ features[i].in_progress
          /\ features[i].dependencies # <<>>
          /\ \A d \in Range(features[i].dependencies) : features[d].passes

\* C8 (blockage): in every state a feature is in the blocked set computed by
\* feature_get_blocked, before the limit, if and only if it is not passing and
\* one of its dependencies is not passing; its blocked_by is exactly the list
\* of its dependency ids that are not passing, in ascending order.
C8_Blockage ==
    LET blocked == feature_get_blocked(features) IN
    /\ \A i \in 1..Len(features) :
          (i \in DOMAIN blocked)
              <=> /\ ~features[i].passes
                  /\ \E d \in Range(features[i].dependencies) :
                        ~(Exists(features, d) /\ features[d].passes)
    /\ \A i \in DOMAIN blocked :
          AscendingListOf(blocked[i],
              {d \in Range(features[i].dependencies) :
                  ~(Exists(features, d) /\ features[d].passes)})

\* C8 witness: a claimed feature with two dependencies is blocked by one of
\* them only
C8_Witness ==
    LET blocked == feature_get_blocked(features) IN
    \E i \in DOMAIN blocked :
        /\ Len(features[i].dependencies) = 2
        /\ Len(blocked[i]) = 1
        /\ features[i].in_progress

\* one server of a short backlog taking calls of every tool that writes
NextAll ==
    \/ Claim(1, RaceIds) \/ MarkPassing(1, RaceIds) \/ MarkFailing(1, RaceIds)
    \/ ClearInProgress(1, RaceIds) \/ Skip(1, RaceIds)
    \/ Create(1, MaxRows) \/ CreateBulk(1, ChainBatches, MaxRows)
    \/ AddRemove(1, RaceIds) \/ SetDependencies(1, RaceIds, RaceLists)

SpecAll == Init /\ [][NextAll]_vars

\* p's step is the UPDATE of its feature_mark_failing call on fid
MarkFailingUpdates(p, fid) ==
    /\ pc[p] = "mark_failing_update"
    /\ pc'[p] # "mark_failing_update"
    /\ arg[p].fid = fid

\* C11 (passes is terminal except for regression): every step in which a
\* feature's passes flag changes from true to false is the UPDATE of a
\* feature_mark_failing call on that feature's id; no claim, claim-and-get,
\* clear_in_progress, skip, dependency edit or create resets passes.
C11_PassesTerminal ==
    [][\A i \in 1..Len(features) :
          (features[i].passes /\ ~features'[i].passes)
              => \E p \in Procs : MarkFailingUpdates(p, i)]_vars

\* C11 witness: a feature_mark_failing call is about to reset a passing
\* feature that another feature depends on
C11_Witness ==
    \E p \in Procs :
        /\ pc[p] = "mark_failing_update"
        /\ features[arg[p].fid].passes
        /\ \E i \in 1..Len(features) : arg[p].fid \in Range(features[i].dependencies)

\* p's step is the guarded UPDATE of a claim (feature_mark_in_progress or
\* feature_claim_and_get) on fid
ClaimUpdates(p, fid) ==
    \/ pc[p] = "idle" /\ pc'[p] = "mark_in_progress_read" /\ arg'[p].fid = fid
    \/ pc[p] = "claim_and_get_update" /\ pc'[p] = "claim_and_get_refresh"
          /\ arg[p].fid = fid

\* C12 as stated (claim-protocol state machine): a feature becomes in_progress
\* only by a claim, and every step in which its passes flag changes from false
\* to true starts in a state where it has in_progress = true.
C12_Original ==
    [][\A i \in 1..Len(features) :
          /\ (~features[i].in_progress /\ features'[i].in_progress)
                => \E p \in Procs : ClaimUpdates(p, i)
          /\ (~features[i].passes /\ features'[i].passes)
                => features[i].in_progress]_vars

\* C12 as amended (claim-protocol state machine): a feature becomes
\* in_progress only by the UPDATE of a claim on its id, made when it is
\* pending; its passes flag changes from false to true only by the UPDATE of a
\* feature_mark_passing call on its id, which needs passes = false and not
\* in_progress = true: a pending, unclaimed feature can be completed.
C12_StateMachine ==
    [][\A i \in 1..Len(features) :
          /\ (~features[i].in_progress /\ features'[i].in_progress)
                => /\ \E p \in Procs : ClaimUpdates(p, i)
                   /\ ~features[i].passes
          /\ (~features[i].passes /\ features'[i].passes)
                => \E p \in Procs : MarkPassingUpdates(p) /\ arg'[p].fid = i]_vars

\* C12 witness: the first call made is a feature_mark_passing whose UPDATE
\* matched a feature that was pending and unclaimed
C12_Witness ==
    \E p \in Procs :
        /\ pc[p] = "mark_passing_read"
        /\ loc[p].rc = 1
        /\ ~start[arg[p].fid].in_progress
        /\ features[arg[p].fid].passes
        /\ \A q \in Procs \ {p} : pc[q] = "idle" /\ quota[q] = 1

\* C13 (mark_failing is unconditional and idempotent): for an existing
\* feature, whatever its flags, feature_mark_failing goes on to its UPDATE,
\* which succeeds, leaves passes and in_progress false and changes nothing
\* else; an UPDATE made on a feature that is already failing and unclaimed, as
\* it is after a first application, leaves the whole store as it was; for a
\* non-existing id the call returns not-found and changes nothing; and when
\* all processes have applied it to the same feature the store differs from
\* the initial one only in that feature's two flags being false.
C13_MarkFailingIdempotent ==
    /\ [][\A p \in Procs :
            /\ \A fid \in RaceIds :
                 (pc[p] = "idle" /\ feature_mark_failing_read(p, fid))
                    => IF Exists(features, fid)
                       THEN pc'[p] = "mark_failing_update" /\ features' = features
                       ELSE result'[p] = "not_found" /\ features' = features
            /\ Decides(p, "mark_failing_update")
                 => /\ result'[p] = "success"
                    /\ ~features'[arg[p].fid].passes
                    /\ ~features'[arg[p].fid].in_progress
                    /\ OnlyFlagsChange(features, features', arg[p].fid)
                    /\ (~features[arg[p].fid].passes /\ ~features[arg[p].fid].in_progress)
                          => features' = features]_vars
    /\ [](\A fid \in 1..MaxRows :
            (AllDone /\ Callers({"mark_failing"}, fid) = Procs)
                => /\ \A p \in Procs : result[p] = "success"
                   /\ ~features[fid].passes /\ ~features[fid].in_progress
                   /\ OnlyFlagsChange(start, features, fid))

\* C13 witness: every process has applied feature_mark_failing to the same
\* feature, which was passing
C13_Witness ==
    /\ AllDone
    /\ Callers({"mark_failing"}, 1) = Procs
    /\ start[1].passes
    /\ ~features[1].passes

\* the steps in which a call re-reads the row after its guarded UPDATE matched
\* no row
ZeroRowLabels == {"mark_in_progress_read", "claim_and_get_refresh", "mark_passing_read"}

\* C14 (precise diagnosis after a zero-row guarded update): whenever a call of
\* feature_mark_in_progress, feature_claim_and_get or feature_mark_passing
\* returns after its UPDATE matched zero rows, it reports not-found only if the
\* feature does not exist, already-passing only if the row is passing,
\* already-in-progress or already_claimed only if the row is in progress, and
\* never a failure for an unknown reason.
C14_PreciseDiagnosis ==
    [][\A p \in Procs :
          (pc[p] \in ZeroRowLabels /\ loc[p].rc = 0 /\ Decides(p, pc[p]))
             => /\ result'[p] # "unknown"
                /\ result'[p] = "not_found" => ~Exists(features, arg[p].fid)
                /\ result'[p] = "already_passing" => features[arg[p].fid].passes
                /\ result'[p] \in {"already_in_progress", "already_claimed"}
                      => features[arg[p].fid].in_progress]_vars

\* p's step ends a call
Returns(p) == pc[p] # "idle" /\ pc'[p] \in {"idle", "done"}

\* C15 (error implies no mutation): no step that ends a call with an error
\* changes the feature table, and no earlier step of such a call did: the
\* table changes only in a step that ends a call without an error, or in a
\* guarded UPDATE that matched a row, after which the call does not end with
\* an error.
C15_ErrorNoMutation ==
    [][/\ \A p \in Procs :
            /\ result'[p] \in Errors /\ result'[p] # result[p] => features' = features
            /\ Returns(p) /\ result'[p] \in Errors => features' = features
            /\ (pc[p] \in ZeroRowLabels /\ loc[p].rc = 1 /\ Returns(p))
                  => result'[p] \notin Errors
       /\ features' # features
            => \E p \in Procs :
                  \/ pc'[p] \in {"idle", "done"} /\ result'[p] \notin Errors \cup {"none"}
                  \/ pc'[p] \in ZeroRowLabels /\ pc[p] # pc'[p] /\ loc'[p].rc = 1]_vars

\* C15 witness: a dependency edit has just been refused as circular, on a
\* table in which some feature has dependencies
C15_Witness ==
    /\ \E p \in Procs : pc[p] = "idle" /\ result[p] = "circular"
    /\ \E i \in 1..Len(features) : features[i].dependencies # <<>>

\* p's step is the UPDATE of a call on feature fid that is at one of labels
UpdatesAt(p, labels, fid) ==
    pc[p] \in labels /\ Decides(p, pc[p]) /\ arg[p].fid = fid

\* C17 as stated: a claimed feature stays in progress until the UPDATE of a
\* feature_clear_in_progress, feature_mark_passing or feature_mark_failing
\* call on its id; no other operation ends the claim.
C17_Original ==
    [][\A i \in 1..Len(features) :
          (features[i].in_progress /\ ~features'[i].in_progress)
             => \E p \in Procs :
                   \/ UpdatesAt(p, {"clear_in_progress_update", "mark_failing_update"}, i)
                   \/ MarkPassingUpdates(p) /\ arg'[p].fid = i]_vars

\* C17 (claim persistence): a claimed feature stays in progress in every later
\* state until the UPDATE of a feature_clear_in_progress, feature_mark_passing,
\* feature_mark_failing or feature_skip call on its id; no other operation,
\* and no operation on a different id, ends the claim.
C17_ClaimPersistence ==
    [][\A i \in 1..Len(features) :
          (features[i].in_progress /\ ~features'[i].in_progress)
             => \E p \in Procs :
                   \/ UpdatesAt(p, {"clear_in_progress_update", "mark_failing_update",
                                    "skip_update"}, i)
                   \/ MarkPassingUpdates(p) /\ arg'[p].fid = i]_vars

\* C17 witness: a claim that has lasted while another feature was completed
\* is about to be ended by feature_skip
C17_Witness ==
    \E p \in Procs :
        /\ pc[p] = "skip_update"
        /\ features[arg[p].fid].in_progress
        /\ \E i \in 1..Len(features) : i # arg[p].fid /\ features[i].passes

\* the number of rows in the table when p's feature_create_bulk began
BatchBase(p) ==
    IF pc[p] = "create_bulk_flush" THEN Len(loc[p].snap)
    ELSE Len(loc[p].snap) - Len(arg[p].specs)

\* the positions in p's batch of the specs that have depends_on_indices
Dependents(p) == {k \in 1..Len(arg[p].specs) : arg[p].specs[k].indices # <<>>}

\* C16 (bulk visibility): while a feature_create_bulk call is between its
\* begin and its commit, the table the other processes read holds no row of
\* its batch, so that feature_get_ready and feature_get_blocked report none of
\* them; the commit step makes all rows of the batch visible at once, each
\* with its depends_on_indices resolved and written, and right after it
\* feature_get_ready reports no dependent batch feature and
\* feature_get_blocked reports each of them.
C16_BulkVisibility ==
    /\ [](\A p \in Procs : pc[p] \in {"create_bulk_flush", "create_bulk_commit"} =>
            /\ Len(features) = BatchBase(p)
            /\ \A k \in 1..Len(arg[p].specs) :
                  /\ BatchBase(p) + k \notin feature_get_ready(features)
                  /\ BatchBase(p) + k \notin DOMAIN feature_get_blocked(features))
    /\ [][\A p \in Procs : Decides(p, "create_bulk_commit") =>
            /\ Len(features') = BatchBase(p) + Len(arg[p].specs)
            /\ \A k \in 1..Len(arg[p].specs) :
                  features'[BatchBase(p) + k].dependencies =
                      ResolvedDependencies(arg[p].specs[k].indices, BatchBase(p) + 1)
            /\ \A k \in Dependents(p) :
                  /\ features'[BatchBase(p) + k].dependencies # <<>>
                  /\ BatchBase(p) + k \notin feature_get_ready(features')
                  /\ BatchBase(p) + k \in DOMAIN feature_get_blocked(features')]_vars

\* C16 witness: a process has flushed a batch with a dependent feature and
\* has not committed it, while another process is in the middle of a call
C16_Witness ==
    \E p, q \in Procs :
        /\ pc[p] = "create_bulk_commit"
        /\ Dependents(p) # {}
        /\ q # p
        /\ pc[q] \notin {"idle", "done"}

\* ------------------------------------------- dependency resolver, by steps

SetMin(S) == CHOOSE x \in S : \A y \in S : x <= y

\* the state of a traversal: the node it scores, the nodes still to visit, the
\* visited set and the scores found so far (by id)
Walk(node, frontier, visited, scores) ==
    [rc |-> 0, snap |-> <<>>, node |-> node, frontier |-> frontier,
     visited |-> visited, scores |-> scores]

\* the function returns: the caller keeps its arguments and what it computed
Deliver(p, a, kind, l) ==
    /\ pc' = [pc EXCEPT ![p] = "done"]
    /\ result' = [result EXCEPT ![p] = kind]
    /\ arg' = [arg EXCEPT ![p] = a]
    /\ loc' = [loc EXCEPT ![p] = l]

\* would_create_circular_dependency(features, source_id, target_id)
would_create_circular_dependency_begin(p, source_id, target_id) ==
    /\ Start(p)
    /\ LET a == [Call("would_create_circular_dependency", source_id) EXCEPT
                    !.dep = target_id]
       IN IF source_id = target_id
          THEN Deliver(p, a, "True", Walk(0, {}, {}, <<>>))
          ELSE Goto(p, "cycle_visit", a, Walk(0, {target_id}, {}, <<>>))
    /\ UNCHANGED <<features, lock>>

\* one round of the traversal from target along the dependency edges
would_create_circular_dependency_visit(p) ==
    /\ At(p, "cycle_visit")
    /\ LET w == loc[p] IN
       IF w.frontier = {} THEN Deliver(p, arg[p], "False", w)
       ELSE LET current == SetMin(w.frontier)
                rest == w.frontier \ {current}
            IN IF current \in w.visited \/ ~Exists(features, current)
               THEN Goto(p, "cycle_visit", arg[p], [w EXCEPT !.frontier = rest])
               ELSE IF arg[p].fid \in Range(features[current].dependencies)
               THEN Deliver(p, arg[p], "True", w)
               ELSE Goto(p, "cycle_visit", arg[p],
                         [w EXCEPT !.frontier = rest \cup Range(features[current].dependencies),
                                   !.visited = w.visited \cup {current}])
    /\ UNCHANGED <<features, lock>>

\* mutant: the adjacency built in the direction of the dependency edges
Children_Forward(fs, i) == Range(fs[i].dependencies) \cap (1..Len(fs))

\* the reverse-dependency adjacency: the features that depend on i
Children(fs, i) == {j \in 1..Len(fs) : i \in Range(fs[j].dependencies)}

\* compute_scheduling_scores(features)
compute_scheduling_scores_begin(p) ==
    /\ Start(p)
    /\ IF features = <<>>
       THEN Deliver(p, Call("compute_scheduling_scores", 0), "success",
                    Walk(0, {}, {}, <<>>))
       ELSE Goto(p, "scores_visit", Call("compute_scheduling_scores", 0),
                 Walk(1, Children(features, 1), {}, <<>>))
    /\ UNCHANGED <<features, lock>>

\* mutant: the traversal of the ranker without its visited set
compute_scheduling_scores_visit_Revisits(p) ==
    /\ At(p, "scores_visit")
    /\ LET w == loc[p] IN
       IF w.frontier = {}
       THEN LET scores == Append(w.scores, Cardinality(w.visited)) IN
            IF w.node = Len(features)
            THEN Deliver(p, arg[p], "success", Walk(0, {}, {}, scores))
            ELSE Goto(p, "scores_visit", arg[p],
                      Walk(w.node + 1, Children(features, w.node + 1), {}, scores))
       ELSE LET current == SetMin(w.frontier)
                rest == w.frontier \ {current}
            IN Goto(p, "scores_visit", arg[p],
                    [w EXCEPT !.frontier = rest \cup Children(features, current),
                              !.visited = w.visited \cup {current}])
    /\ UNCHANGED <<features, lock>>

\* one round of the traversal of the reverse graph from the node being scored;
\* when nothing is left to visit the node's score is the number of nodes
\* reached, and the next node is taken
compute_scheduling_scores_visit(p) ==
    /\ At(p, "scores_visit")
    /\ LET w == loc[p] IN
       IF w.frontier = {}
       THEN LET scores == Append(w.scores, Cardinality(w.visited)) IN
            IF w.node = Len(features)
            THEN Deliver(p, arg[p], "success", Walk(0, {}, {}, scores))
            ELSE Goto(p, "scores_visit", arg[p],
                      Walk(w.node + 1, Children(features, w.node + 1), {}, scores))
       ELSE LET current == SetMin(w.frontier)
                rest == w.frontier \ {current}
            IN IF current \in w.visited
               THEN Goto(p, "scores_visit", arg[p], [w EXCEPT !.frontier = rest])
               ELSE Goto(p, "scores_visit", arg[p],
                         [w EXCEPT !.frontier = rest \cup Children(features, current),
                                   !.visited = w.visited \cup {current}])
    /\ UNCHANGED <<features, lock>>

\* ascending lists of ids among 1..n, within the limit
ListsAmong(n) ==
    {l \in SeqsUpTo(1..n, MAX_DEPENDENCIES_PER_FEATURE) :
        \A k \in 1..(Len(l) - 1) : l[k] < l[k + 1]}

\* the feature lists of n pending features with the given dependencies
Graph(d) ==
    [i \in DOMAIN d |->
        [priority |-> i, passes |-> FALSE, in_progress |-> FALSE, dependencies |-> d[i]]]

\* 2 and 3 depend on 1, 4 depends on 2 and 3
Diamond == Graph(<< <<>>, <<1>>, <<1>>, <<2, 3>> >>)

\* 1 -> 3, 2 -> 1, 3 -> 2, and 4 -> 1 outside the cycle
ComplexCycle == Graph(<< <<3>>, <<1>>, <<2>>, <<1>> >>)

\* the feature lists the resolver is given: every graph of up to MaxFeatures
\* features, with cycles and self-references, and the two graphs of four
ResolverInputs ==
    UNION {{Graph(d) : d \in [1..n -> ListsAmong(n)]} : n \in 0..MaxFeatures}
        \cup {Diamond, ComplexCycle}

\* a caller of the resolver, given a feature list
InitResolver ==
    /\ features \in ResolverInputs
    /\ start = features
    /\ Idle
    /\ quota = [p \in Procs |-> 1]

NextResolver ==
    \/ \E source_id, target_id \in 1..(Len(features) + 1) :
            would_create_circular_dependency_begin(1, source_id, target_id)
    \/ would_create_circular_dependency_visit(1)
    \/ compute_scheduling_scores_begin(1)
    \/ compute_scheduling_scores_visit(1)

SpecResolver == InitResolver /\ [][NextResolver]_vars

\* the resolver is sequential code: a call that can take a step takes it
SpecResolverFair == SpecResolver /\ WF_vars(NextResolver)

\* b is reached from a by following one or more dependency edges of fs
DependsOn(fs, a, b) ==
    \E path \in SeqsUpTo(1..Len(fs), Len(fs)) :
        /\ Len(path) >= 1
        /\ path[1] = a
        /\ \A k \in 1..(Len(path) - 1) : path[k + 1] \in Range(fs[path[k]].dependencies)
        /\ b \in Range(fs[path[Len(path)]].dependencies)

\* p has a result of the function op
Computed(p, op) == pc[p] = "done" /\ arg[p].op = op

\* C18 (cycle detector correctness): for every feature list and every pair of
\* ids, would_create_circular_dependency(graph, source, target) answers true
\* if and only if source = target or source is reached from target by one or
\* more existing dependency edges, and it leaves the graph as it was; the
\* function the handlers call and the traversal by steps give this answer.
C18_DetectorCorrect ==
    \A p \in Procs : Computed(p, "would_create_circular_dependency") =>
        LET source_id == arg[p].fid
            target_id == arg[p].dep
            closes == source_id = target_id \/ DependsOn(features, target_id, source_id)
        IN /\ result[p] \in {"True", "False"}
           /\ result[p] = "True" <=> closes
           /\ would_create_circular_dependency(features, source_id, target_id) <=> closes
           /\ features = start

\* C18 witness: on the chain 3 -> 2 -> 1 the redundant edge 3 -> 1 is found
\* not to close a cycle
C18_Witness ==
    \E p \in Procs :
        /\ Computed(p, "would_create_circular_dependency")
        /\ Len(features) = 3
        /\ features[3].dependencies = <<2>>
        /\ features[2].dependencies = <<1>>
        /\ features[1].dependencies = <<>>
        /\ arg[p].fid = 3 /\ arg[p].dep = 1
        /\ result[p] = "False"

\* C19 (termination under corruption): on every finite feature list, with a
\* cycle or a self-reference or without, a call of
\* would_create_circular_dependency or compute_scheduling_scores that has
\* started eventually returns; the detector returns true or false, and the
\* ranker returns a score for every feature id of the list, which is the empty
\* map for the empty list.
C19_Termination ==
    /\ \A p \in Procs :
          [](pc[p] \in {"cycle_visit", "scores_visit"} => <>(pc[p] = "done"))
    /\ [](\A p \in Procs :
            /\ Computed(p, "would_create_circular_dependency")
                  => result[p] \in {"True", "False"}
            /\ Computed(p, "compute_scheduling_scores")
                  => /\ DOMAIN loc[p].scores = 1..Len(features)
                     /\ features = <<>> => loc[p].scores = <<>>)

\* C19 witness: the ranker has returned four scores for the 3-cycle 1 -> 3,
\* 2 -> 1, 3 -> 2 with a fourth feature depending on 1
C19_Witness ==
    \E p \in Procs :
        /\ Computed(p, "compute_scheduling_scores")
        /\ features = ComplexCycle
        /\ Len(loc[p].scores) = 4

\* C20 (scheduling order): on every acyclic feature list, if feature b
\* depends directly or transitively on feature a then the score
\* compute_scheduling_scores gives a is greater than the one it gives b; so on
\* the chain 3 -> 2 -> 1 score(1) > score(2) > score(3), and on the diamond
\* score(1) is strictly greatest and score(4) strictly least.
C20_SchedulingOrder ==
    \A p \in Procs : Computed(p, "compute_scheduling_scores") =>
        LET scores == loc[p].scores IN
        /\ Acyclic(features) =>
              \A a, b \in 1..Len(features) :
                  DependsOn(features, b, a) => scores[a] > scores[b]
        /\ features = Graph(<< <<>>, <<1>>, <<2>> >>) =>
              scores[1] > scores[2] /\ scores[2] > scores[3]
        /\ features = Diamond =>
              /\ \A i \in 2..4 : scores[1] > scores[i]
              /\ \A i \in 1..3 : scores[4] < scores[i]

\* C20 witness: the ranker has scored the diamond
C20_Witness ==
    \E p \in Procs :
        /\ Computed(p, "compute_scheduling_scores")
        /\ features = Diamond
        /\ loc[p].scores[1] > loc[p].scores[2]
        /\ loc[p].scores[3] > loc[p].scores[4]

\* the classes of feature i, as the claim C21 names them
ClassesAsStated(fs, i) ==
    {c \in {"done", "in_progress", "ready", "blocked"} :
        \/ c = "done" /\ fs[i].passes
        \/ c = "in_progress" /\ fs[i].in_progress
        \/ c = "ready" /\ i \in feature_get_ready(fs)
        \/ c = "blocked" /\ i \in DOMAIN feature_get_blocked(fs)}

\* the classes of feature i, a claimed feature with an unmet dependency
\* counting as blocked only
Classes(fs, i) ==
    {c \in {"done", "in_progress", "ready", "blocked"} :
        \/ c = "done" /\ fs[i].passes
        \/ c = "in_progress" /\ fs[i].in_progress /\ i \notin DOMAIN feature_get_blocked(fs)
        \/ c = "ready" /\ i \in feature_get_ready(fs)
        \/ c = "blocked" /\ i \in DOMAIN feature_get_blocked(fs)}

\* C21 as stated: every feature is in exactly one of done (passes),
\* in-progress (in_progress), ready (in the feature_get_ready set) and blocked
\* (in the feature_get_blocked set).
C21_Original ==
    \A i \in 1..Len(features) : Cardinality(ClassesAsStated(features, i)) = 1

\* C21 (classifier partition): in every reachable state each feature is in
\* exactly one of the classes done (passes), blocked (in the
\* feature_get_blocked set), in-progress (in_progress and not in the
\* feature_get_blocked set) and ready (in the feature_get_ready set); the
\* class is the status feature_get_graph gives its node, ready being pending.
C21_ClassifierPartition ==
    \A i \in 1..Len(features) :
        /\ Cardinality(Classes(features, i)) = 1
        /\ LET status == feature_get_graph(features).nodes[i].status
           IN (IF status = "pending" THEN "ready" ELSE status) \in Classes(features, i)

\* C21 witness: a feature has been claimed although the feature it depends
\* on is not passing, beside a passing feature
C21_Witness ==
    \E i, j \in 1..Len(features) :
        /\ features[i].in_progress
        /\ i \in DOMAIN feature_get_blocked(features)
        /\ features[j].passes

\* C24 (feature_get_graph is a faithful projection of the store): it returns
\* one node per feature, in id order, with the feature's priority and
\* dependency list and the status done if the feature passes, otherwise
\* blocked if some dependency is not passing, otherwise in_progress if it is
\* in progress, otherwise pending; and its edge list holds the edge
\* {source: d, target: f} exactly once when d is in the dependency list of
\* feature f, and not at all otherwise.
C24_GraphProjection ==
    LET graph == feature_get_graph(features)
        n == Len(features)
    IN /\ DOMAIN graph.nodes = 1..n
       /\ \A i \in 1..n :
            LET node == graph.nodes[i]
                unmet == \E d \in Range(features[i].dependencies) :
                            ~(Exists(features, d) /\ features[d].passes)
            IN /\ node.id = i
               /\ node.priority = features[i].priority
               /\ node.dependencies = features[i].dependencies
               /\ node.status = "done" <=> features[i].passes
               /\ node.status = "blocked" <=> ~features[i].passes /\ unmet
               /\ node.status = "in_progress"
                     <=> ~features[i].passes /\ ~unmet /\ features[i].in_progress
               /\ node.status = "pending"
                     <=> ~features[i].passes /\ ~unmet /\ ~features[i].in_progress
       /\ \A k \in 1..Len(graph.edges) :
            /\ graph.edges[k].target \in 1..n
            /\ graph.edges[k].source \in Range(features[graph.edges[k].target].dependencies)
       /\ \A f \in 1..n : \A d \in Range(features[f].dependencies) :
            Cardinality({k \in 1..Len(graph.edges) :
                            graph.edges[k] = [source |-> d, target |-> f]}) = 1

\* C24 witness: the graph of a store in which a claimed feature has an unmet
\* dependency and another feature has two dependencies
C24_Witness ==
    \E i, j \in 1..Len(features) :
        /\ features[i].in_progress
        /\ feature_get_graph(features).nodes[i].status = "blocked"
        /\ Len(features[j].dependencies) = 2
        /\ Len(feature_get_graph(features).edges) >= 3

\* C22 (well-formed dependency lists): in every reachable state, after any
\* sequence of create, create_bulk, add_dependency, remove_dependency and
\* set_dependencies calls, the stored dependency list of each feature is in
\* strictly ascending order, so without a duplicate id, and has at most
\* MAX_DEPENDENCIES_PER_FEATURE entries.
C22_WellFormedLists ==
    \A i \in 1..Len(features) :
        LET deps == features[i].dependencies IN
        /\ \A k \in 1..(Len(deps) - 1) : deps[k] < deps[k + 1]
        /\ Len(deps) <= MAX_DEPENDENCIES_PER_FEATURE

\* C22 witness: a feature created without dependencies has been given as many
\* as the limit allows, and a call has just been refused for the limit
C22_Witness ==
    /\ \E i \in 1..Len(features) :
          /\ Len(features[i].dependencies) = MAX_DEPENDENCIES_PER_FEATURE
          /\ \A d \in Range(features[i].dependencies) : d < i
    /\ result[1] = "limit"

\* ------------------------------------------ feature_get_ready: sort, limit

\* the nodes reached from the frontier in the reverse-dependency graph
RECURSIVE ReverseReach(_, _, _)
ReverseReach(fs, frontier, visited) ==
    IF frontier = {} THEN visited
    ELSE LET next == UNION {Children(fs, i) : i \in frontier}
         IN ReverseReach(fs, next \ (visited \cup frontier), visited \cup frontier)

\* compute_scheduling_scores(all_dicts): id -> score
compute_scheduling_scores(fs) ==
    [i \in 1..Len(fs) |-> Cardinality(ReverseReach(fs, Children(fs, i), {}))]

\* mutant: the sort key with the score not negated
SortKeyBefore_LowScoreFirst(fs, scores, a, b) ==
    \/ scores[a] < scores[b]
    \/ scores[a] = scores[b] /\ fs[a].priority < fs[b].priority
    \/ scores[a] = scores[b] /\ fs[a].priority = fs[b].priority /\ a <= b

\* key=lambda f: (-scores.get(f["id"], 0), f["priority"], f["id"]): a's key is
\* not after b's
SortKeyBefore(fs, scores, a, b) ==
    \/ scores[a] > scores[b]
    \/ scores[a] = scores[b] /\ fs[a].priority < fs[b].priority
    \/ scores[a] = scores[b] /\ fs[a].priority = fs[b].priority /\ a <= b

\* ready.sort(key=...): the ids of S in the order of their keys
RECURSIVE SortReady(_, _, _)
SortReady(fs, scores, S) ==
    IF S = {} THEN <<>>
    ELSE LET first == CHOOSE a \in S : \A b \in S : SortKeyBefore(fs, scores, a, b)
         IN <<first>> \o SortReady(fs, scores, S \ {first})

\* feature_get_ready(limit): what the tool returns, features by id
feature_get_ready_result(fs, limit) ==
    LET ready == SortReady(fs, compute_scheduling_scores(fs), feature_get_ready(fs))
        shown == SubSeq(ready, 1, IF limit < Len(ready) THEN limit ELSE Len(ready))
    IN [features |-> shown, count |-> Len(shown), total_ready |-> Len(ready)]

\* the limits a caller passes
Limits == 1..(MaxFeatures + 1)

\* a comes before b in the order of C23: higher score, then lower priority,
\* then lower id
Precedes(fs, a, b) ==
    LET scores == compute_scheduling_scores(fs) IN
    \/ scores[a] > scores[b]
    \/ scores[a] = scores[b] /\ fs[a].priority < fs[b].priority
    \/ scores[a] = scores[b] /\ fs[a].priority = fs[b].priority /\ a < b

\* C23 (get_ready ordering and limit): for every limit the features list
\* feature_get_ready returns holds min(limit, total_ready) features of the
\* ready set, each once, in the order of descending scheduling score, then
\* ascending priority, then ascending id, and every ready feature left out
\* comes after all of them in that order; count is the length of the list and
\* total_ready is the size of the ready set.
C23_ReadyOrderAndLimit ==
    \A limit \in Limits :
        LET r == feature_get_ready_result(features, limit)
            ready == feature_get_ready(features)
            total == Cardinality(ready)
        IN /\ r.total_ready = total
           /\ r.count = Len(r.features)
           /\ r.count = IF limit < total THEN limit ELSE total
           /\ Range(r.features) \subseteq ready
           /\ \A j, k \in 1..Len(r.features) :
                 j < k => Precedes(features, r.features[j], r.features[k])
           /\ \A a \in ready \ Range(r.features) :
                 \A k \in 1..Len(r.features) : Precedes(features, r.features[k], a)

\* C23 witness: two features are ready, the one with the higher priority
\* number has the higher score and is the only one returned under limit 1
C23_Witness ==
    /\ Len(features) = 3
    /\ feature_get_ready(features) = {1, 2}
    /\ features[1].priority < features[2].priority
    /\ feature_get_ready_result(features, 1).features = <<2>>
    /\ feature_get_ready_result(features, 1).total_ready = 2

\* C25 (a passing feature is never skipped): feature_skip on a feature that
\* is passing when the call reads it returns the already-passing error, and
\* in every execution the UPDATE of feature_skip leaves the priority of a
\* feature that is passing when the UPDATE is applied as it was.
C25_PassingNeverSkipped ==
    [][\A p \in Procs :
          /\ \A fid \in 1..Len(features) :
                (pc[p] = "idle" /\ features[fid].passes /\ feature_skip_read(p, fid))
                    => result'[p] = "already_passing" /\ features' = features
          /\ (SkipCommits(p) /\ features[arg[p].fid].passes)
                => features'[arg[p].fid].priority = features[arg[p].fid].priority]_vars

\* C26 (distinct priorities): starting from a table with pairwise distinct
\* priorities, in every state reached by feature_create, feature_create_bulk
\* and feature_skip calls of concurrent processes, interleaved with calls of
\* the claim protocol, no two features have the same priority.
C26_DistinctPriorities ==
    \A i, j \in 1..Len(features) :
        i # j => features[i].priority # features[j].priority

\* C26 witness: a process is about to skip a feature while another is inside
\* the transaction of a create, both having to pick a priority above the same
\* maximum, and an earlier skip has moved a feature behind a later one
C26_Witness ==
    \E p, q \in Procs :
        /\ pc[p] = "skip_update"
        /\ pc[q] \in {"create_commit", "create_bulk_commit"}
        /\ Len(features) >= 1
        /\ features[1].priority > 1

StatusOps ==
    {"mark_in_progress", "claim_and_get", "mark_passing", "mark_failing",
     "clear_in_progress"}
DependencyOps == {"add_dependency", "remove_dependency", "set_dependencies"}

\* the call p is making in this step: the one it starts, or the one it is in
CallOf(p) == IF pc[p] = "idle" THEN arg'[p] ELSE arg[p]

\* rows of fs other than fid are as in gs, and so is all of fid but its
\* dependencies
OnlyDependenciesChange(fs, gs, fid) ==
    /\ Len(gs) = Len(fs)
    /\ \A i \in 1..Len(fs) : i # fid => gs[i] = fs[i]
    /\ gs[fid] = [fs[fid] EXCEPT !.dependencies = gs[fid].dependencies]

\* C27 (frame of the status transitions and the dependency edits): a step of
\* feature_mark_in_progress, feature_claim_and_get, feature_mark_passing,
\* feature_mark_failing or feature_clear_in_progress that changes the table
\* changes only the passes and in_progress flags of the feature it is called
\* on, feature_clear_in_progress and the two claims leaving passes as it was;
\* a step of feature_add_dependency, feature_remove_dependency or
\* feature_set_dependencies that changes the table changes only the
\* dependency list of the feature it is called on; and the table changes
\* only in a step of some call.
C27_Frame ==
    [][features' # features =>
          \E p \in Procs :
              /\ pc'[p] # pc[p]
              /\ CallOf(p).op \in StatusOps
                    => /\ OnlyFlagsChange(features, features', CallOf(p).fid)
                       /\ CallOf(p).op \in {"clear_in_progress"} \cup ClaimOps
                             => features'[CallOf(p).fid].passes
                                    = features[CallOf(p).fid].passes
              /\ CallOf(p).op \in DependencyOps
                    => OnlyDependenciesChange(features, features', CallOf(p).fid)]_vars

\* C27 witness: a dependency is about to be removed from a claimed feature
\* while the other feature is passing
C27_Witness ==
    \E p \in Procs :
        /\ pc[p] = "remove_dependency_commit"
        /\ Exists(features, arg[p].fid)
        /\ arg[p].dep \in Range(features[arg[p].fid].dependencies)
        /\ features[arg[p].fid].in_progress
        /\ \E i \in 1..Len(features) : features[i].passes

\* feature i is not passing and every feature it depends on is
Workable(fs, i) ==
    /\ ~fs[i].passes
    /\ \A d \in Range(fs[i].dependencies) : Exists(fs, d) /\ fs[d].passes

\* C28 (no scheduling deadlock): in every reachable state in which some
\* feature is not passing, some feature that is not passing has all of its
\* dependencies passing, and every such feature is in the feature_get_ready
\* set or in progress; unfinished features are never all blocked.
C28_NoSchedulingDeadlock ==
    /\ (\E i \in 1..Len(features) : ~features[i].passes)
          => \E i \in 1..Len(features) : Workable(features, i)
    /\ \A i \in 1..Len(features) :
          Workable(features, i)
              => i \in feature_get_ready(features) \/ features[i].in_progress

\* C28 witness: a feature is blocked, and a feature that had passed has a
\* dependency that was reopened
C28_Witness ==
    \E i, j \in 1..Len(features) :
        /\ i \in DOMAIN feature_get_blocked(features)
        /\ features[j].passes
        /\ \E d \in Range(features[j].dependencies) : ~features[d].passes

\* ----------------------------------------------------------------- workers

\* backlogs of MaxFeatures features wired into an acyclic graph, each pending,
\* claimed or passing
WorkerStores ==
    {fs \in {[i \in 1..MaxFeatures |->
                [priority |-> i, passes |-> f[i][1], in_progress |-> f[i][2],
                 dependencies |-> d[i]]] :
                    d \in [1..MaxFeatures -> ListsAmong(MaxFeatures)],
                    f \in [1..MaxFeatures -> Flags]} :
        Acyclic(fs)}

\* a worker claims a feature that feature_get_ready reports
WorkerClaims(p, fid) ==
    /\ fid \in feature_get_ready(features)
    /\ \/ feature_mark_in_progress_update(p, fid)
       \/ feature_claim_and_get_read(p, fid)

\* a worker completes a feature that is claimed
WorkerCompletes(p, fid) ==
    /\ Exists(features, fid)
    /\ features[fid].in_progress
    /\ feature_mark_passing_update(p, fid)

\* the handler a worker has called goes on
WorkerContinues(p) ==
    \/ feature_mark_in_progress_read(p)
    \/ feature_claim_and_get_update(p)
    \/ feature_claim_and_get_refresh(p)
    \/ feature_mark_passing_read(p)

\* the workers of parallel mode on a backlog nobody edits
InitWorkers ==
    /\ features \in WorkerStores
    /\ start = features
    /\ Idle
    /\ quota = [p \in Procs |-> -1]

NextWorkers ==
    \E p \in Procs :
        \/ \E fid \in 1..MaxFeatures : WorkerClaims(p, fid)
        \/ \E fid \in 1..MaxFeatures : WorkerCompletes(p, fid)
        \/ WorkerContinues(p)

SpecWorkers == InitWorkers /\ [][NextWorkers]_vars

\* every ready feature is eventually claimed by some worker, every claimed
\* feature is eventually completed, and a handler that has started runs on
SpecWorkersFair ==
    /\ SpecWorkers
    /\ \A fid \in 1..MaxFeatures :
          /\ WF_vars(\E p \in Procs : WorkerClaims(p, fid))
          /\ WF_vars(\E p \in Procs : WorkerCompletes(p, fid))
    /\ \A p \in Procs : WF_vars(WorkerContinues(p))

\* every feature is passing and none is in progress
AllPassing ==
    \A i \in 1..Len(features) : features[i].passes /\ ~features[i].in_progress

\* C29 (eventual completion): on a finite backlog that nobody creates into,
\* edits, fails or skips, if every ready feature is eventually claimed and
\* every claimed feature is eventually completed with feature_mark_passing,
\* then eventually every feature has passes=true and in_progress=false, and
\* it stays so.
C29_EventualCompletion == <>[]AllPassing

\* C29 witness: the whole backlog is passing, of which a feature with a
\* dependency and that dependency were pending at the start
C29_Witness ==
    /\ AllPassing
    /\ \E i \in 1..Len(features) :
          /\ ~start[i].passes /\ ~start[i].in_progress
          /\ \E d \in Range(start[i].dependencies) :
                ~start[d].passes /\ ~start[d].in_progress

\* feature i goes from not passing to passing in this step
Completes(i) == ~features[i].passes /\ features'[i].passes

=============================================================================
